---- MODULE Spec2Model ----
(***************************************************************************)
(* Overlay widget (src/public/overlay-widget.js): the view state machine,  *)
(* the selection map, the catalog cache, the purchase submission and the   *)
(* health probe, as one state machine driven by user events, timers and    *)
(* the continuations of network operations (one handler per step, run to   *)
(* completion, as the browser's event loop runs them).                     *)
(*                                                                         *)
(* Strings whose characters the code inspects (error codes, form fields,   *)
(* quantity inputs) are sequences of one-character strings.  Numbers that  *)
(* may be fractional (quantities) are fixed-point integers counting        *)
(* 1/Scale units.                                                          *)
(***************************************************************************)
EXTENDS Integers, Sequences, FiniteSets, TLC

VARIABLES
    isOpen,            \* let isOpen (set by the first openModal, never reset)
    modalOpen,         \* modal.classList contains 'open'
    offersCache,       \* let offersCache: <<>> is null, <<offers>> is populated
    selected,          \* Map offerId -> qty, in insertion order
    view,              \* let view
    lastErrorMessage,  \* let lastErrorMessage
    lastOrder,         \* let lastOrder (a JSON value, NullJson when null)
    health,            \* const health = { status, code, last }
    screen,            \* what bodyEl/footerEl currently present
    reads,             \* outstanding remote catalog reads of fetchOffersOnce
    purchases,         \* outstanding submitPurchase calls
    probes,            \* outstanding runHealthCheck calls, oldest first
    timerArmed,        \* setTimeout(runHealthCheck, 200) has not fired yet
    delivered,         \* outcomes delivered to callers of fetchOffersOnce (caller -> outcome)
    static             \* dev-server.js: the static request being served and its answer

vars == <<isOpen, modalOpen, offersCache, selected, view, lastErrorMessage,
          lastOrder, health, screen, reads, purchases, probes,
          timerArmed, delivered, static>>

-----------------------------------------------------------------------------
(* Bounds of the model *)

\* most health probes outstanding at once (the retry button can be pressed again and again)
MaxProbes == 2
\* largest whole quantity the + button is pressed up to on an offer without maxPerOrder
MaxQty == 2
\* longest error identifier enumerated for sanitizeErrorCode (besides the named codes)
MaxCodeLen == 3
\* most characters of a static request's target after its leading '/'
MaxPathLen == 5
\* longest offer list and longest selection enumerated for sumSelectedSubtotalMinor
MaxOffers == 2
MaxSelected == 2
\* most callers of fetchOffersOnce outstanding at once in the call-level specification
MaxCallers == 3

-----------------------------------------------------------------------------
(* Strings as character sequences *)

Lower == <<"a","b","c","d","e","f","g","h","i","j","k","l","m",
           "n","o","p","q","r","s","t","u","v","w","x","y","z">>
Upper == <<"A","B","C","D","E","F","G","H","I","J","K","L","M",
           "N","O","P","Q","R","S","T","U","V","W","X","Y","Z">>
Digits == <<"0","1","2","3","4","5","6","7","8","9">>

Range(s) == {s[i] : i \in DOMAIN s}

\* String.prototype.toUpperCase on one character
ToUpperChar(c) ==
    IF \E i \in DOMAIN Lower : Lower[i] = c
    THEN Upper[CHOOSE i \in DOMAIN Lower : Lower[i] = c]
    ELSE c

\* the character class [A-Z0-9_]
IsCodeChar(c) == c \in Range(Upper) \cup Range(Digits) \cup {"_"}

\* String.prototype.trim (the inputs hold no other white space than blanks)
RECURSIVE TrimLeft(_)
TrimLeft(s) == IF s # <<>> /\ Head(s) = " " THEN TrimLeft(Tail(s)) ELSE s
RECURSIVE TrimRight(_)
TrimRight(s) ==
    IF s # <<>> /\ s[Len(s)] = " " THEN TrimRight(SubSeq(s, 1, Len(s) - 1)) ELSE s
Trim(s) == TrimRight(TrimLeft(s))

EMPTY == <<>>
NETWORK == <<"N","E","T","W","O","R","K">>
REQUEST_FAILED == <<"R","E","Q","U","E","S","T","_","F","A","I","L","E","D">>
PARSE == <<"P","A","R","S","E">>
BAD_RESPONSE == <<"B","A","D","_","R","E","S","P","O","N","S","E">>
UNKNOWN == <<"U","N","K","N","O","W","N">>
UNAUTHORISED == <<"U","N","A","U","T","H","O","R","I","S","E","D">>
QTY_LIMIT == <<"Q","T","Y","_","L","I","M","I","T">>
NO_ITEMS == <<"N","O","_","I","T","E","M","S">>
OFFER_NOT_FOUND == <<"O","F","F","E","R","_","N","O","T","_","F","O","U","N","D">>
CURRENCY_MISMATCH ==
    <<"C","U","R","R","E","N","C","Y","_","M","I","S","M","A","T","C","H">>
INVALID_MERCHANT == <<"I","N","V","A","L","I","D","_","M","E","R","C","H","A","N","T">>
\* a code outside the allow-list, as an upstream may send it
WEIRD_CODE == <<"w","e","i","r","d"," ","c","o","d","e","!">>

known == {NO_ITEMS, OFFER_NOT_FOUND, QTY_LIMIT, CURRENCY_MISMATCH, INVALID_MERCHANT,
          UNAUTHORISED, NETWORK, REQUEST_FAILED, PARSE, BAD_RESPONSE}

\* sanitizeErrorCode without its toUpperCase
sanitizeErrorCode_NoUpper(msg) ==
    IF msg \in known THEN msg
    ELSE LET s  == IF msg = EMPTY THEN UNKNOWN ELSE msg
             up == [i \in DOMAIN s |-> IF IsCodeChar(s[i]) THEN s[i] ELSE "_"]
         IN  IF up = EMPTY THEN UNKNOWN ELSE up

\* sanitizeErrorCode(msg); the empty sequence stands for every falsy msg
sanitizeErrorCode(msg) ==
    IF msg \in known THEN msg
    ELSE LET s  == IF msg = EMPTY THEN UNKNOWN ELSE msg
             up == [i \in DOMAIN s |->
                      IF IsCodeChar(ToUpperChar(s[i])) THEN ToUpperChar(s[i]) ELSE "_"]
         IN  IF up = EMPTY THEN UNKNOWN ELSE up

\* /.+@.+\..+/.test(email): some '@' with a character before it, later a '.'
\* with a character between and a character after (single-line input values)
isValidEmail(email) ==
    \E a, d \in DOMAIN email :
        /\ email[a] = "@" /\ email[d] = "."
        /\ 1 < a /\ a + 1 < d /\ d < Len(email)

-----------------------------------------------------------------------------
(* Numbers: quantities count 1/Scale units, so that 1.5 is representable *)

\* fixed-point denominator of the JS numbers the quantity handlers compute with
Scale == 10

Min(a, b) == IF a < b THEN a ELSE b
Max(a, b) == IF a > b THEN a ELSE b

IsDigits(s) == \A i \in DOMAIN s : s[i] \in Range(Digits)
DigitValue(c) == (CHOOSE i \in DOMAIN Digits : Digits[i] = c) - 1
RECURSIVE DigitsValue(_)
DigitsValue(s) ==
    IF s = <<>> THEN 0
    ELSE 10 * DigitsValue(SubSeq(s, 1, Len(s) - 1)) + DigitValue(s[Len(s)])

NaN == [nan |-> TRUE, v |-> 0]
Num(n) == [nan |-> FALSE, v |-> n]

\* Number(String(value).trim()) on decimal literals with at most one fractional
\* digit: "" is 0, an optional sign, digits, an optional '.', digits; else NaN
StringToNumber(raw) ==
    LET t      == Trim(raw)
        signed == t # <<>> /\ Head(t) \in {"+", "-"}
        neg    == t # <<>> /\ Head(t) = "-"
        u      == IF signed THEN Tail(t) ELSE t
        hasDot == \E i \in DOMAIN u : u[i] = "."
        dot    == IF hasDot THEN CHOOSE i \in DOMAIN u :
                                    u[i] = "." /\ \A j \in 1..(i - 1) : u[j] # "."
                  ELSE Len(u) + 1
        ip     == SubSeq(u, 1, dot - 1)
        fp     == SubSeq(u, dot + 1, Len(u))
        mag    == DigitsValue(ip) * Scale
                    + (IF fp = <<>> THEN 0 ELSE (DigitValue(fp[1]) * Scale) \div 10)
    IN  IF t = <<>> THEN Num(0)
        ELSE IF IsDigits(ip) /\ IsDigits(fp) /\ Len(ip) + Len(fp) > 0
             THEN Num(IF neg THEN 0 - mag ELSE mag)
             ELSE NaN

\* Number.isFinite on a value StringToNumber produced
NumberIsFinite(x) == ~x.nan

\* a whole number, as a quantity
Whole(n) == n * Scale

-----------------------------------------------------------------------------
(* JSON values, offers and responses *)

\* JSON.parse of a response body: "invalid" does not parse (resp.json() rejects),
\* "null" parses to null, "object" parses to an object with the fields below
\* (error: EMPTY when absent or falsy; offers: <<>> when not an array, <<seq>> when
\* an array; orderId: "" when absent)
NullJson == [json |-> "null", error |-> EMPTY, offers |-> <<>>, orderId |-> ""]
InvalidJson == [json |-> "invalid", error |-> EMPTY, offers |-> <<>>, orderId |-> ""]
EmptyObject == [json |-> "object", error |-> EMPTY, offers |-> <<>>, orderId |-> ""]
ErrorBody(code) == [json |-> "object", error |-> code, offers |-> <<>>, orderId |-> ""]
CatalogBody(offers) ==
    [json |-> "object", error |-> EMPTY, offers |-> <<offers>>, orderId |-> ""]
OrderBody(id) == [json |-> "object", error |-> EMPTY, offers |-> <<>>, orderId |-> id]

Parses(body) == body.json # "invalid"
\* `data && data.error`
HasError(body) == body.json = "object" /\ body.error # EMPTY
\* `data` is truthy
Truthy(body) == body.json = "object"

\* maxPerOrder: <<>> when undefined, <<m>> when the number m
OfferA == [id |-> "gift-a", active |-> TRUE, amountMinor |-> 500, maxPerOrder |-> <<2>>]
OfferB == [id |-> "gift-b", active |-> TRUE, amountMinor |-> 300, maxPerOrder |-> <<>>]
OfferC == [id |-> "gift-c", active |-> FALSE, amountMinor |-> 900, maxPerOrder |-> <<1>>]

\* a response: transport FALSE when fetch() rejected, else status ok or not, and a body
Rejected == [transport |-> FALSE, ok |-> FALSE, body |-> InvalidJson]
Response(ok, body) == [transport |-> TRUE, ok |-> ok, body |-> body]

\* what the catalog endpoint may answer
CatalogResponses ==
    {Rejected}
    \cup {Response(TRUE, b) : b \in {CatalogBody(<<OfferA, OfferC>>),
                                     CatalogBody(<<OfferB>>), EmptyObject, InvalidJson}}
    \cup {Response(FALSE, b) : b \in {ErrorBody(UNAUTHORISED), EmptyObject, InvalidJson}}

\* what the purchase endpoint may answer
PurchaseResponses ==
    {Rejected}
    \cup {Response(TRUE, b) : b \in {OrderBody("order-1"), EmptyObject, NullJson,
                                     ErrorBody(QTY_LIMIT), InvalidJson}}
    \cup {Response(FALSE, b) : b \in {ErrorBody(WEIRD_CODE), EmptyObject, InvalidJson}}

\* the bodies a health probe may read from a non-success answer
HealthBodies == {ErrorBody(UNAUTHORISED), ErrorBody(WEIRD_CODE), EmptyObject, InvalidJson}

\* what a user may type into a quantity input
RawQuantities ==
    {<<>>, <<"0">>, <<"1">>, <<" ", "3", " ">>, <<"1", ".", "5">>, <<"-", "1">>,
     <<"a", "b", "c">>}

\* what a user may type into the checkout form
RawNames == {<<" ">>, <<" ", "J", "o">>}
RawEmails == {<<"j", "@", "a">>, <<"j", "@", "a", ".", "c", " ">>}

-----------------------------------------------------------------------------
(* The selection Map (insertion-ordered) *)

MapHas(m, k) == \E i \in DOMAIN m : m[i].offerId = k
\* selected.get(id) || 0
MapGetOrZero(m, k) ==
    IF MapHas(m, k) THEN m[CHOOSE i \in DOMAIN m : m[i].offerId = k].qty ELSE 0
\* Map.prototype.set: an existing key keeps its place, a new key goes last
MapSet(m, k, q) ==
    IF MapHas(m, k)
    THEN [i \in DOMAIN m |-> IF m[i].offerId = k THEN [offerId |-> k, qty |-> q] ELSE m[i]]
    ELSE Append(m, [offerId |-> k, qty |-> q])
MapDelete(m, k) == SelectSeq(m, LAMBDA e : e.offerId # k)

RECURSIVE SumQty(_)
SumQty(m) == IF m = <<>> THEN 0 ELSE Head(m).qty + SumQty(Tail(m))
countSelectedItems(m) == SumQty(m)

getSelectedItems(m) == SelectSeq(m, LAMBDA e : e.qty > 0)

\* offers.find(o => o.id === id)
FindOffer(offers, id) == offers[CHOOSE i \in DOMAIN offers :
                                  offers[i].id = id /\ \A j \in 1..(i - 1) : offers[j].id # id]
HasOffer(offers, id) == \E i \in DOMAIN offers : offers[i].id = id

\* sumSelectedSubtotalMinor without the quantity
RECURSIVE sumSelectedSubtotalMinor_NoQty(_, _)
sumSelectedSubtotalMinor_NoQty(offers, m) ==
    IF m = <<>> THEN 0
    ELSE (IF HasOffer(offers, Head(m).offerId)
          THEN FindOffer(offers, Head(m).offerId).amountMinor * Scale
          ELSE 0)
         + sumSelectedSubtotalMinor_NoQty(offers, Tail(m))

\* sumSelectedSubtotalMinor(offers), in 1/Scale minor units as the quantities are
RECURSIVE sumSelectedSubtotalMinor(_, _)
sumSelectedSubtotalMinor(offers, m) ==
    IF m = <<>> THEN 0
    ELSE (IF HasOffer(offers, Head(m).offerId)
          THEN FindOffer(offers, Head(m).offerId).amountMinor * Head(m).qty
          ELSE 0)
         + sumSelectedSubtotalMinor(offers, Tail(m))

\* Number.isFinite(offer.maxPerOrder), typeof o.maxPerOrder === 'number'
HasMax(offer) == offer.maxPerOrder # <<>>
MaxOf(offer) == Whole(offer.maxPerOrder[1])

\* the .ow-inc click handler without its Math.min
incNext_NoClamp(offer, qty) == qty + Whole(1)

\* the .ow-inc click handler's next quantity
incNext(offer, qty) ==
    Min(qty + Whole(1), IF HasMax(offer) THEN MaxOf(offer) ELSE qty + Whole(1))

\* the .ow-dec click handler's next quantity
decNext(qty) == Max(0, qty - Whole(1))

\* the .ow-qty-input change handler's bounded quantity
qtySafe(raw) ==
    LET v == StringToNumber(raw)
    IN  IF NumberIsFinite(v) /\ v.v >= 0 THEN v.v ELSE 0
qtyBounded(offer, raw) ==
    LET safe == qtySafe(raw)
        max  == IF HasMax(offer) THEN MaxOf(offer) ELSE safe
    IN  Min(safe, max)

\* `if (next === 0) selected.delete(id); else selected.set(id, next)`
DeleteOrSet(m, id, q) == IF q = 0 THEN MapDelete(m, id) ELSE MapSet(m, id, q)

-----------------------------------------------------------------------------
(* NetworkClient: how a settled request becomes a return value or a thrown Error *)

Threw(message) == [threw |-> TRUE, message |-> message, value |-> <<>>]
Returned(value) == [threw |-> FALSE, message |-> EMPTY, value |-> value]

\* fetchOffersOnce without its filter
ActiveOffers_All(offers) == offers

\* data.offers.filter(o => o && o.active)
ActiveOffers(offers) == SelectSeq(offers, LAMBDA o : o.active)

\* fetchOffersOnce, `if (!resp.ok)`: the try block's result; the empty catch
\* swallows whatever it threw, and REQUEST_FAILED is thrown after it
fetchNotOkTry(resp) ==
    IF ~Parses(resp.body) THEN Threw(<<"S", "y", "n", "t", "a", "x">>)
    ELSE IF HasError(resp.body) THEN Threw(resp.body.error)
    ELSE Returned(<<>>)
fetchNotOk(resp) ==
    LET swallowed == fetchNotOkTry(resp)
    IN  Threw(REQUEST_FAILED)

\* fetchOffersOnce, success status: the try block's result; its catch rethrows
\* everything, the BAD_RESPONSE thrown inside the block included, as PARSE
fetchOkTry(resp) ==
    IF ~Parses(resp.body) THEN Threw(<<"S", "y", "n", "t", "a", "x">>)
    ELSE IF ~Truthy(resp.body) \/ resp.body.offers = <<>> THEN Threw(BAD_RESPONSE)
    ELSE Returned(ActiveOffers(resp.body.offers[1]))
fetchOk(resp) ==
    LET tried == fetchOkTry(resp)
    IN  IF tried.threw THEN Threw(PARSE) ELSE tried

\* fetchOffersOnce after `await fetch`: what the call throws or the offers it caches
fetchOffersOutcome(resp) ==
    IF ~resp.transport THEN Threw(NETWORK)
    ELSE IF ~resp.ok THEN fetchNotOk(resp)
    ELSE fetchOk(resp)

\* submitPurchase without its `if (data && data.error)` after the status check
submitPurchaseOutcome_NoBodyError(resp) ==
    IF ~resp.transport THEN Threw(NETWORK)
    ELSE IF ~Parses(resp.body) THEN Threw(PARSE)
    ELSE IF ~resp.ok
         THEN IF HasError(resp.body) THEN Threw(resp.body.error)
              ELSE Threw(REQUEST_FAILED)
    ELSE Returned(resp.body)

\* submitPurchase after `await fetch`: what the call throws or the data it returns
submitPurchaseOutcome(resp) ==
    IF ~resp.transport THEN Threw(NETWORK)
    ELSE IF ~Parses(resp.body) THEN Threw(PARSE)
    ELSE IF ~resp.ok
         THEN IF HasError(resp.body) THEN Threw(resp.body.error)
              ELSE Threw(REQUEST_FAILED)
    ELSE IF HasError(resp.body) THEN Threw(resp.body.error)
    ELSE Returned(resp.body)

\* `e && e.message ? e.message : 'UNKNOWN'`
ErrorMessage(outcome) == IF outcome.message # EMPTY THEN outcome.message ELSE UNKNOWN

-----------------------------------------------------------------------------
(* Presentation: what the render functions leave in bodyEl and footerEl *)

NoFlags == [name |-> FALSE, buyerEmail |-> FALSE, recipientEmail |-> FALSE]

BlankScreen ==
    [kind |-> "blank", code |-> EMPTY, checkoutEnabled |-> FALSE, incDisabled |-> {},
     subtotal |-> 0, haveItems |-> FALSE, invalid |-> NoFlags]
renderLoading == [BlankScreen EXCEPT !.kind = "loading"]
renderError(code) == [BlankScreen EXCEPT !.kind = "error", !.code = code]
\* renderCatalog, were the Checkout button never disabled
renderCatalog_CheckoutEnabled(offers, sel) ==
    [BlankScreen EXCEPT
        !.kind = "catalog",
        !.checkoutEnabled = TRUE,
        !.subtotal = sumSelectedSubtotalMinor(offers, sel),
        !.incDisabled = {offers[i].id : i \in {j \in DOMAIN offers :
                            HasMax(offers[j])
                            /\ MapGetOrZero(sel, offers[j].id) >= MaxOf(offers[j])}}]

\* the + button of an offer is disabled when reachMax, Checkout when itemCount is 0;
\* subtotal is the `const subtotal` the footer formats
renderCatalog(offers, sel) ==
    [BlankScreen EXCEPT
        !.kind = "catalog",
        !.checkoutEnabled = countSelectedItems(sel) # 0,
        !.subtotal = sumSelectedSubtotalMinor(offers, sel),
        !.incDisabled = {offers[i].id : i \in {j \in DOMAIN offers :
                            HasMax(offers[j])
                            /\ MapGetOrZero(sel, offers[j].id) >= MaxOf(offers[j])}}]
\* Submit is disabled unless haveItems; every hint starts hidden
renderCheckout(sel) ==
    [BlankScreen EXCEPT !.kind = "checkout", !.haveItems = Len(getSelectedItems(sel)) > 0]
renderConfirm == [BlankScreen EXCEPT !.kind = "confirm"]

\* setView, were fetchOffersOnce to start a remote read whatever the cache holds
setView_AlwaysReads(next, cache, message, order, sel) ==
    /\ view' = next
    /\ CASE next = "loading" -> screen' = renderLoading /\ reads' = reads
         [] next = "error" ->
                screen' = renderError(sanitizeErrorCode(message)) /\ reads' = reads
         [] next = "catalog" ->
                screen' = renderLoading /\ reads' = Append(reads, [then |-> "catalog", caller |-> 0])
         [] next = "checkout" ->
                screen' = screen /\ reads' = Append(reads, [then |-> "checkout", caller |-> 0])
         [] next = "confirm" ->
                /\ screen' = IF Truthy(order) THEN renderConfirm ELSE renderError(UNKNOWN)
                /\ reads' = reads

\* setView(next) called when the variables have the values passed; a populated
\* cache resolves fetchOffersOnce in the same turn, so its then-callback's render
\* is part of the step; an empty cache starts a remote read
setView(next, cache, message, order, sel) ==
    /\ view' = next
    /\ CASE next = "loading" -> screen' = renderLoading /\ reads' = reads
         [] next = "error" ->
                screen' = renderError(sanitizeErrorCode(message)) /\ reads' = reads
         [] next = "catalog" ->
                IF cache # <<>>
                THEN screen' = renderCatalog(cache[1], sel) /\ reads' = reads
                ELSE screen' = renderLoading /\ reads' = Append(reads, [then |-> "catalog", caller |-> 0])
         [] next = "checkout" ->
                IF cache # <<>>
                THEN screen' = renderCheckout(sel) /\ reads' = reads
                ELSE screen' = screen /\ reads' = Append(reads, [then |-> "checkout", caller |-> 0])
         [] next = "confirm" ->
                /\ screen' = IF Truthy(order) THEN renderConfirm ELSE renderError(UNKNOWN)
                /\ reads' = reads

\* updateStatusUI: the status label's class and the code its text carries
\* ('Error' + (health.code ? `: ${health.code}` : ''))
updateStatusUI(h) ==
    [class |-> CASE h.status = "checking" -> "checking"
                 [] h.status = "ok" -> "ok"
                 [] h.status = "error" -> "err"
                 [] OTHER -> "",
     code |-> IF h.status = "error" THEN h.code ELSE EMPTY]

\* Date.now(): of a time stamp the model keeps only that it is not 0
DateNow == 1

\* runHealthCheck up to its `await fetch`
runHealthCheck ==
    /\ health' = [status |-> "checking", code |-> EMPTY, last |-> DateNow]
    /\ probes' = Append(probes, [stage |-> "fetch"])

RemoveAt(s, i) == SubSeq(s, 1, i - 1) \o SubSeq(s, i + 1, Len(s))

-----------------------------------------------------------------------------
(* dev-server.js, static serving: paths are character sequences; the escape *)
(* %2F of a request target is one element of the sequence                    *)

\* PUBLIC_DIR: the directory p under the file system's root
PUBLIC_DIR == <<"/", "p">>

\* String.prototype.startsWith
StartsWith(s, prefix) ==
    Len(prefix) <= Len(s) /\ SubSeq(s, 1, Len(prefix)) = prefix

\* String.prototype.split('/')
RECURSIVE SplitSlash(_)
SplitSlash(s) ==
    IF \A i \in DOMAIN s : s[i] # "/" THEN <<s>>
    ELSE LET i == CHOOSE k \in DOMAIN s : s[k] = "/" /\ \A j \in 1..(k - 1) : s[j] # "/"
         IN  <<SubSeq(s, 1, i - 1)>> \o SplitSlash(SubSeq(s, i + 1, Len(s)))

\* Array.prototype.join('/')
RECURSIVE JoinSlash(_)
JoinSlash(segs) ==
    IF segs = <<>> THEN <<>>
    ELSE IF Len(segs) = 1 THEN segs[1]
    ELSE segs[1] \o <<"/">> \o JoinSlash(Tail(segs))

DropLast(segs) == IF segs = <<>> THEN segs ELSE SubSeq(segs, 1, Len(segs) - 1)

\* the URL parser's path state: a '..' segment shortens the path, a '.' segment
\* is dropped, either leaves an empty segment when it is the last; an escape is
\* kept as it is
RECURSIVE UrlSegments(_, _)
UrlSegments(rest, acc) ==
    IF rest = <<>> THEN acc
    ELSE LET seg      == Head(rest)
             trailing == IF Len(rest) = 1 THEN <<EMPTY>> ELSE <<>>
         IN  IF seg = <<".", ".">> THEN UrlSegments(Tail(rest), DropLast(acc) \o trailing)
             ELSE IF seg = <<".">> THEN UrlSegments(Tail(rest), acc \o trailing)
             ELSE UrlSegments(Tail(rest), Append(acc, seg))

\* new URL(req.url, base).pathname, for a request target that starts with '/'
UrlPathname(target) == <<"/">> \o JoinSlash(UrlSegments(Tail(SplitSlash(target)), <<>>))

\* decodeURIComponent
decodeURIComponent(s) == [i \in DOMAIN s |-> IF s[i] = "%2F" THEN "/" ELSE s[i]]

\* path.normalize of an absolute POSIX path: empty and '.' segments are dropped,
\* '..' removes the segment before it, a trailing slash is kept
RECURSIVE NormalSegments(_, _)
NormalSegments(rest, acc) ==
    IF rest = <<>> THEN acc
    ELSE LET seg == Head(rest)
         IN  IF seg = EMPTY \/ seg = <<".">> THEN NormalSegments(Tail(rest), acc)
             ELSE IF seg = <<".", ".">> THEN NormalSegments(Tail(rest), DropLast(acc))
             ELSE NormalSegments(Tail(rest), Append(acc, seg))
pathNormalize(p) ==
    LET segs == NormalSegments(SplitSlash(p), <<>>)
    IN  IF segs = <<>> THEN <<"/">>
        ELSE <<"/">> \o JoinSlash(segs) \o (IF p[Len(p)] = "/" THEN <<"/">> ELSE <<>>)

\* path.join(a, b)
pathJoin(a, b) == pathNormalize(a \o <<"/">> \o b)

INDEX_HTML == <<"/", "i", "n", "d", "e", "x", ".", "h", "t", "m", "l">>

\* serveStatic up to fs.stat: the file path it resolves for a request target
resolveFilePath(target) ==
    LET decoded  == decodeURIComponent(UrlPathname(target))
        pathname == IF decoded = <<"/">> THEN INDEX_HTML ELSE decoded
    IN  pathNormalize(pathJoin(PUBLIC_DIR, pathname))

\* `filePath.startsWith(PUBLIC_DIR)`
withinPublicDir(filePath) == StartsWith(filePath, PUBLIC_DIR)

\* no request: status 0; an answered request: the status sent and, with 200, the
\* file streamed
NoRequest == [target |-> EMPTY, status |-> 0, file |-> EMPTY]

-----------------------------------------------------------------------------
(* Initial state: the script has run to its end, nothing was clicked yet *)

Callers == 1..MaxCallers
Idle == [state |-> "idle", outcome |-> Returned(<<>>)]
Pending == [state |-> "pending", outcome |-> Returned(<<>>)]
Settled(outcome) == [state |-> "settled", outcome |-> outcome]

Init ==
    /\ isOpen = FALSE
    /\ modalOpen = FALSE
    /\ offersCache = <<>>
    /\ selected = <<>>
    /\ view = "catalog"
    /\ lastErrorMessage = EMPTY
    /\ lastOrder = NullJson
    /\ health = [status |-> "idle", code |-> EMPTY, last |-> 0]
    /\ screen = BlankScreen
    /\ reads = <<>>
    /\ purchases = <<>>
    /\ probes = <<>>
    /\ timerArmed = TRUE
    /\ delivered = [c \in Callers |-> Idle]
    /\ static = NoRequest

-----------------------------------------------------------------------------
(* User events *)

\* openModal without its `if (isOpen)` early return
openModal_Restarts ==
    /\ modalOpen' = TRUE
    /\ isOpen' = TRUE
    /\ setView("catalog", offersCache, lastErrorMessage, lastOrder, selected)
    /\ runHealthCheck
    /\ UNCHANGED <<offersCache, selected, lastErrorMessage, lastOrder, purchases,
                   timerArmed, delivered, static>>

\* click on the floating button
openModal ==
    /\ modalOpen' = TRUE
    /\ IF isOpen
       THEN UNCHANGED <<isOpen, view, screen, reads, health, probes>>
       ELSE /\ isOpen' = TRUE
            /\ setView("catalog", offersCache, lastErrorMessage, lastOrder, selected)
            /\ runHealthCheck
    /\ UNCHANGED <<offersCache, selected, lastErrorMessage, lastOrder, purchases,
                   timerArmed, delivered, static>>

\* closeModal, were it to drop the outstanding purchase submissions
closeModal_CancelsPurchases ==
    /\ modalOpen' = FALSE
    /\ purchases' = <<>>
    /\ UNCHANGED <<isOpen, offersCache, selected, view, lastErrorMessage, lastOrder,
                   health, screen, reads, probes, timerArmed, delivered, static>>

\* the close button, the backdrop, the Escape key, Close in the catalog footer,
\* Done in the confirm footer
closeModal ==
    /\ modalOpen' = FALSE
    /\ UNCHANGED <<isOpen, offersCache, selected, view, lastErrorMessage, lastOrder,
                   health, screen, reads, purchases, probes, timerArmed, delivered, static>>

\* what a click inside the dialog needs: the dialog is displayed
Visible(kind) == modalOpen /\ screen.kind = kind

SelectionFrame ==
    UNCHANGED <<isOpen, modalOpen, offersCache, lastErrorMessage, lastOrder, health,
                purchases, probes, timerArmed, delivered, static>>

\* click on an offer's + button (beyond MaxQty the model stops pressing it)
IncClick(id) ==
    /\ Visible("catalog")
    /\ HasOffer(offersCache[1], id)
    /\ id \notin screen.incDisabled
    /\ LET offer == FindOffer(offersCache[1], id)
           qty   == MapGetOrZero(selected, id)
           next  == incNext(offer, qty)
       IN  /\ HasMax(offer) \/ next <= Whole(MaxQty)
           /\ selected' = MapSet(selected, id, next)
           /\ setView("catalog", offersCache, lastErrorMessage, lastOrder, selected')
    /\ SelectionFrame

\* click on an offer's - button
DecClick(id) ==
    /\ Visible("catalog")
    /\ HasOffer(offersCache[1], id)
    /\ LET qty  == MapGetOrZero(selected, id)
           next == decNext(qty)
       IN  /\ selected' = DeleteOrSet(selected, id, next)
           /\ setView("catalog", offersCache, lastErrorMessage, lastOrder, selected')
    /\ SelectionFrame

\* change event of an offer's quantity input holding the text raw
QtyChange(id, raw) ==
    /\ Visible("catalog")
    /\ HasOffer(offersCache[1], id)
    /\ LET offer   == FindOffer(offersCache[1], id)
           bounded == qtyBounded(offer, raw)
       IN  /\ selected' = DeleteOrSet(selected, id, bounded)
           /\ setView("catalog", offersCache, lastErrorMessage, lastOrder, selected')
    /\ SelectionFrame

NavigationFrame ==
    UNCHANGED <<isOpen, modalOpen, offersCache, selected, lastErrorMessage, lastOrder,
                health, purchases, probes, timerArmed,
                delivered, static>>

\* click on Checkout in the catalog footer
CheckoutClick ==
    /\ Visible("catalog")
    /\ screen.checkoutEnabled
    /\ setView("checkout", offersCache, lastErrorMessage, lastOrder, selected)
    /\ NavigationFrame

\* Back, were it to show the catalog view without calling fetchOffersOnce
BackClick_NoRefetch ==
    /\ Visible("checkout") \/ Visible("error")
    /\ view' = "catalog"
    /\ screen' = IF offersCache # <<>> THEN renderCatalog(offersCache[1], selected)
                 ELSE renderLoading
    /\ reads' = reads
    /\ NavigationFrame

\* click on Back in the checkout footer or in the error footer
BackClick ==
    /\ Visible("checkout") \/ Visible("error")
    /\ setView("catalog", offersCache, lastErrorMessage, lastOrder, selected)
    /\ NavigationFrame

\* the submit handler's `valid` without the recipient's check
validSubmit_NoRecipient(name, buyerEmail, recipientEmail, haveItems) ==
    name # EMPTY /\ isValidEmail(buyerEmail) /\ haveItems

\* the submit handler's `valid`
validSubmit(name, buyerEmail, recipientEmail, haveItems) ==
    name # EMPTY /\ isValidEmail(buyerEmail) /\ isValidEmail(recipientEmail) /\ haveItems

\* the three setInvalid calls
invalidFlags(name, buyerEmail, recipientEmail) ==
    [name |-> Len(name) = 0,
     buyerEmail |-> ~isValidEmail(buyerEmail),
     recipientEmail |-> ~isValidEmail(recipientEmail)]

\* the submit handler, were it to call submitPurchase a second time
SubmitClick_SendsTwice(rawName, rawBuyer, rawRecipient) ==
    /\ Visible("checkout")
    /\ screen.haveItems
    /\ UNCHANGED <<isOpen, modalOpen, offersCache, selected, lastErrorMessage, lastOrder,
                   health, probes, timerArmed, delivered, static>>
    /\ LET name  == Trim(rawName)
           buyer == Trim(rawBuyer)
           recip == Trim(rawRecipient)
           payload == [buyer |-> [name |-> name, email |-> buyer],
                       recipient |-> [email |-> recip],
                       items |-> getSelectedItems(selected)]
       IN  IF ~validSubmit(name, buyer, recip, screen.haveItems)
           THEN /\ screen' = [screen EXCEPT !.invalid = invalidFlags(name, buyer, recip)]
                /\ UNCHANGED <<view, reads, purchases>>
           ELSE /\ setView("loading", offersCache, lastErrorMessage, lastOrder, selected)
                /\ purchases' = purchases \o <<payload, payload>>

\* click on Submit Purchase with the three inputs holding the given texts
SubmitClick(rawName, rawBuyer, rawRecipient) ==
    /\ Visible("checkout")
    /\ screen.haveItems
    /\ UNCHANGED <<isOpen, modalOpen, offersCache, selected, lastErrorMessage, lastOrder,
                   health, probes, timerArmed, delivered, static>>
    /\ LET name  == Trim(rawName)
           buyer == Trim(rawBuyer)
           recip == Trim(rawRecipient)
       IN  IF ~validSubmit(name, buyer, recip, screen.haveItems)
           THEN /\ screen' = [screen EXCEPT !.invalid = invalidFlags(name, buyer, recip)]
                /\ UNCHANGED <<view, reads, purchases>>
           ELSE /\ setView("loading", offersCache, lastErrorMessage, lastOrder, selected)
                /\ purchases' = Append(purchases,
                       [buyer |-> [name |-> name, email |-> buyer],
                        recipient |-> [email |-> recip],
                        items |-> getSelectedItems(selected)])

-----------------------------------------------------------------------------
(* Continuations of the network operations *)

\* the i-th outstanding remote catalog read settles with resp: the rest of
\* fetchOffersOnce, then the then/catch callbacks of the setView that called it
CatalogReadSettles(i, resp) ==
    /\ i \in DOMAIN reads
    /\ LET outcome == fetchOffersOutcome(resp)
           message == ErrorMessage(outcome)
       IN  /\ offersCache' = IF outcome.threw THEN offersCache ELSE <<outcome.value>>
           /\ reads' = RemoveAt(reads, i)
           /\ IF reads[i].then = "caller"
              THEN /\ delivered' = [delivered EXCEPT ![reads[i].caller] = Settled(outcome)]
                   /\ UNCHANGED <<lastErrorMessage, screen>>
              ELSE /\ delivered' = delivered
                   /\ IF outcome.threw
                      THEN /\ lastErrorMessage' = message
                           /\ screen' = renderError(sanitizeErrorCode(message))
                      ELSE /\ lastErrorMessage' = lastErrorMessage
                           /\ screen' = IF reads[i].then = "catalog"
                                        THEN renderCatalog(outcome.value, selected)
                                        ELSE renderCheckout(selected)
    /\ UNCHANGED <<isOpen, modalOpen, selected, view, lastOrder, health, purchases,
                   probes, timerArmed, static>>

\* the submit handler, were its catch block to store the failed answer's body
PurchaseSettles_StoresOnFailure(i, resp) ==
    /\ i \in DOMAIN purchases
    /\ LET outcome == submitPurchaseOutcome(resp)
       IN  /\ purchases' = RemoveAt(purchases, i)
           /\ IF outcome.threw
              THEN /\ lastErrorMessage' = ErrorMessage(outcome)
                   /\ lastOrder' = resp.body
                   /\ setView("error", offersCache, lastErrorMessage', lastOrder, selected)
              ELSE /\ lastOrder' = outcome.value
                   /\ lastErrorMessage' = lastErrorMessage
                   /\ setView("confirm", offersCache, lastErrorMessage, lastOrder', selected)
    /\ UNCHANGED <<isOpen, modalOpen, offersCache, selected, health, probes, timerArmed, delivered, static>>

\* the i-th outstanding submitPurchase settles with resp: the rest of
\* submitPurchase, then the rest of the submit handler
PurchaseSettles(i, resp) ==
    /\ i \in DOMAIN purchases
    /\ LET outcome == submitPurchaseOutcome(resp)
       IN  /\ purchases' = RemoveAt(purchases, i)
           /\ IF outcome.threw
              THEN /\ lastErrorMessage' = ErrorMessage(outcome)
                   /\ lastOrder' = lastOrder
                   /\ setView("error", offersCache, lastErrorMessage', lastOrder, selected)
              ELSE /\ lastOrder' = outcome.value
                   /\ lastErrorMessage' = lastErrorMessage
                   /\ setView("confirm", offersCache, lastErrorMessage, lastOrder', selected)
    /\ UNCHANGED <<isOpen, modalOpen, offersCache, selected, health, probes, timerArmed, delivered, static>>

-----------------------------------------------------------------------------
(* HealthMonitor *)

HealthFrame ==
    UNCHANGED <<isOpen, modalOpen, offersCache, selected, view, lastErrorMessage,
                lastOrder, screen, reads, purchases,
                delivered, static>>

\* setTimeout(runHealthCheck, 200) fires
PassiveTimerFires ==
    /\ timerArmed
    /\ timerArmed' = FALSE
    /\ runHealthCheck
    /\ HealthFrame

\* click on the recheck button in the dialog header (beyond MaxProbes outstanding
\* probes the model stops pressing it)
RetryClick ==
    /\ modalOpen
    /\ Len(probes) < MaxProbes
    /\ runHealthCheck
    /\ UNCHANGED timerArmed
    /\ HealthFrame

\* the catch block after `await fetch`, were it to show the failure as the error view
probeRejected_SetsView(i) ==
    /\ health' = [status |-> "error", code |-> NETWORK, last |-> DateNow]
    /\ probes' = RemoveAt(probes, i)
    /\ view' = "error"
    /\ screen' = renderError(NETWORK)
    /\ UNCHANGED <<isOpen, modalOpen, offersCache, selected, lastErrorMessage, lastOrder,
                   reads, purchases, timerArmed, delivered, static>>

\* the catch block after `await fetch` of the i-th outstanding probe
probeRejected(i) ==
    /\ health' = [status |-> "error", code |-> NETWORK, last |-> DateNow]
    /\ probes' = RemoveAt(probes, i)
    /\ UNCHANGED timerArmed
    /\ HealthFrame

\* the i-th probe's fetch rejects: no response could be obtained
ProbeFetchFails(i) ==
    /\ i \in DOMAIN probes
    /\ probes[i].stage = "fetch"
    /\ probeRejected(i)

\* the 8000 ms timer, were it to fire without aborting the fetch
ProbeDeadlineExpires_NoAbort(i) ==
    /\ i \in DOMAIN probes
    /\ probes[i].stage = "fetch"
    /\ probes' = [probes EXCEPT ![i].stage = "expired"]
    /\ UNCHANGED <<health, timerArmed, static>>
    /\ HealthFrame

\* the i-th probe's 8000 ms timer fires while its fetch is outstanding: abort()
\* rejects the fetch
ProbeDeadlineExpires(i) ==
    /\ i \in DOMAIN probes
    /\ probes[i].stage = "fetch"
    /\ probeRejected(i)

\* the i-th probe's fetch resolves with a response: clearTimeout, then `resp.ok`
\* settles the probe or the body is read
ProbeResponds(i, ok) ==
    /\ i \in DOMAIN probes
    /\ probes[i].stage = "fetch"
    /\ IF ok
       THEN /\ health' = [status |-> "ok", code |-> EMPTY, last |-> DateNow]
            /\ probes' = RemoveAt(probes, i)
       ELSE /\ health' = health
            /\ probes' = [probes EXCEPT ![i].stage = "json"]
    /\ UNCHANGED timerArmed
    /\ HealthFrame

\* the end of runHealthCheck without `if (!health.code) health.code = 'REQUEST_FAILED'`
ProbeBodyRead_NoFallback(i, body) ==
    /\ i \in DOMAIN probes
    /\ probes[i].stage = "json"
    /\ LET code == IF Parses(body) /\ HasError(body) THEN body.error ELSE health.code
       IN  health' = [status |-> "error", code |-> code, last |-> DateNow]
    /\ probes' = RemoveAt(probes, i)
    /\ UNCHANGED timerArmed
    /\ HealthFrame

\* the i-th probe's resp.json() settles with body (rejects when it does not parse)
ProbeBodyRead(i, body) ==
    /\ i \in DOMAIN probes
    /\ probes[i].stage = "json"
    /\ LET code == IF Parses(body) /\ HasError(body) THEN body.error ELSE health.code
       IN  health' = [status |-> "error",
                      code |-> IF code = EMPTY THEN REQUEST_FAILED ELSE code,
                      last |-> DateNow]
    /\ probes' = RemoveAt(probes, i)
    /\ UNCHANGED timerArmed
    /\ HealthFrame

-----------------------------------------------------------------------------
(* The widget *)

OfferIds == {OfferA.id, OfferB.id, OfferC.id}

Next ==
    \/ openModal
    \/ closeModal
    \/ \E id \in OfferIds : IncClick(id)
    \/ \E id \in OfferIds : DecClick(id)
    \/ \E id \in OfferIds, raw \in RawQuantities : QtyChange(id, raw)
    \/ CheckoutClick
    \/ BackClick
    \/ \E n \in RawNames, b, r \in RawEmails : SubmitClick(n, b, r)
    \/ \E i \in DOMAIN reads, resp \in CatalogResponses : CatalogReadSettles(i, resp)
    \/ \E i \in DOMAIN purchases, resp \in PurchaseResponses : PurchaseSettles(i, resp)
    \/ PassiveTimerFires
    \/ RetryClick
    \/ \E i \in DOMAIN probes : ProbeFetchFails(i)
    \/ \E i \in DOMAIN probes : ProbeDeadlineExpires(i)
    \/ \E i \in DOMAIN probes, ok \in BOOLEAN : ProbeResponds(i, ok)
    \/ \E i \in DOMAIN probes, body \in HealthBodies : ProbeBodyRead(i, body)

Spec == Init /\ [][Next]_vars

-----------------------------------------------------------------------------
(* CatalogCache at the level of its calls: fetchOffersOnce called by any caller *)
(* at any time, as its contract allows                                          *)

\* caller c calls fetchOffersOnce and awaits the result
fetchOffersOnceCall(c) ==
    /\ delivered[c].state # "pending"
    /\ IF offersCache # <<>>
       THEN /\ delivered' = [delivered EXCEPT ![c] = Settled(Returned(offersCache[1]))]
            /\ reads' = reads
       ELSE /\ delivered' = [delivered EXCEPT ![c] = Pending]
            /\ reads' = Append(reads, [then |-> "caller", caller |-> c])
    /\ UNCHANGED <<isOpen, modalOpen, offersCache, selected, view, lastErrorMessage,
                   lastOrder, health, screen, purchases, probes, timerArmed, static>>

\* further answers of the catalog endpoint: no offer at all, inactive offers
\* only, inactive offers before and between active ones
WideCatalogResponses ==
    {Response(TRUE, CatalogBody(offers)) :
        offers \in {<<>>, <<OfferC>>, <<OfferC, OfferA, OfferB>>, <<OfferB, OfferC, OfferA>>}}

NextCatalogCache ==
    \/ \E c \in Callers : fetchOffersOnceCall(c)
    \/ \E i \in DOMAIN reads, resp \in CatalogResponses \cup WideCatalogResponses :
          CatalogReadSettles(i, resp)

SpecCatalogCache == Init /\ [][NextCatalogCache]_vars

-----------------------------------------------------------------------------
(* sanitizeErrorCode on its own: any error identifier is stored as the error    *)
(* message, and the error view is set as the handlers' catch blocks set it      *)

\* the characters error identifiers are enumerated over: a lower-case letter, an
\* upper-case letter, a digit, the underscore, a punctuation mark and a blank
CodeAlphabet == {"a", "Z", "7", "_", "!", " "}

\* the error identifiers: every string of at most MaxCodeLen characters (the
\* empty one included), the allow-list and the upstream's 'weird code!'
ErrorIdentifiers ==
    UNION {[1..n -> CodeAlphabet] : n \in 0..MaxCodeLen} \cup known \cup {WEIRD_CODE}

InitSanitize ==
    /\ lastErrorMessage \in ErrorIdentifiers
    /\ isOpen = FALSE
    /\ modalOpen = FALSE
    /\ offersCache = <<>>
    /\ selected = <<>>
    /\ view = "catalog"
    /\ lastOrder = NullJson
    /\ health = [status |-> "idle", code |-> EMPTY, last |-> 0]
    /\ screen = BlankScreen
    /\ reads = <<>>
    /\ purchases = <<>>
    /\ probes = <<>>
    /\ timerArmed = TRUE
    /\ delivered = [c \in Callers |-> Idle]
    /\ static = NoRequest

\* setView('error') with the stored error message
ShowError ==
    /\ view # "error"
    /\ setView("error", offersCache, lastErrorMessage, lastOrder, selected)
    /\ UNCHANGED <<isOpen, modalOpen, offersCache, selected, lastErrorMessage, lastOrder,
                   health, purchases, probes, timerArmed, delivered, static>>

NextSanitize == ShowError

SpecSanitize == InitSanitize /\ [][NextSanitize]_vars

-----------------------------------------------------------------------------
(* sumSelectedSubtotalMinor on its own: renderCatalog called with any offer     *)
(* list while the selection holds any entries                                   *)

\* the offer lists: at most MaxOffers offers, no id twice
OfferLists ==
    {l \in UNION {[1..n -> {OfferA, OfferB, OfferC}] : n \in 0..MaxOffers} :
        \A i, j \in DOMAIN l : l[i].id = l[j].id => i = j}

\* the selections: at most MaxSelected entries, no id twice, whole and
\* fractional quantities
Selections ==
    {m \in UNION {[1..n -> [offerId : {OfferA.id, OfferB.id, OfferC.id},
                            qty : {Whole(1), Whole(2), Whole(1) + Scale \div 2}]] :
                     n \in 0..MaxSelected} :
        \A i, j \in DOMAIN m : m[i].offerId = m[j].offerId => i = j}

InitSubtotal ==
    /\ \E offers \in OfferLists : offersCache = <<offers>>
    /\ selected \in Selections
    /\ isOpen = TRUE
    /\ modalOpen = TRUE
    /\ view = "catalog"
    /\ lastErrorMessage = EMPTY
    /\ lastOrder = NullJson
    /\ health = [status |-> "idle", code |-> EMPTY, last |-> 0]
    /\ screen = renderLoading
    /\ reads = <<>>
    /\ purchases = <<>>
    /\ probes = <<>>
    /\ timerArmed = TRUE
    /\ delivered = [c \in Callers |-> Idle]
    /\ static = NoRequest

\* the then-callback of setView('catalog'): renderCatalog(offers)
ShowCatalog ==
    /\ screen.kind = "loading"
    /\ setView("catalog", offersCache, lastErrorMessage, lastOrder, selected)
    /\ UNCHANGED <<isOpen, modalOpen, offersCache, selected, lastErrorMessage, lastOrder,
                   health, purchases, probes, timerArmed, delivered, static>>

NextSubtotal == ShowCatalog

SpecSubtotal == InitSubtotal /\ [][NextSubtotal]_vars

-----------------------------------------------------------------------------
(* dev-server.js: one static request, any target, any file system content *)

\* the characters request targets are enumerated over
PathAlphabet == {"/", ".", "p", "x", "%2F"}

\* the request targets: '/' followed by at most MaxPathLen characters
RequestTargets ==
    {<<"/">> \o t : t \in UNION {[1..n -> PathAlphabet] : n \in 0..MaxPathLen}}

InitStatic ==
    /\ \E target \in RequestTargets : static = [NoRequest EXCEPT !.target = target]
    /\ isOpen = FALSE
    /\ modalOpen = FALSE
    /\ offersCache = <<>>
    /\ selected = <<>>
    /\ view = "catalog"
    /\ lastErrorMessage = EMPTY
    /\ lastOrder = NullJson
    /\ health = [status |-> "idle", code |-> EMPTY, last |-> 0]
    /\ screen = BlankScreen
    /\ reads = <<>>
    /\ purchases = <<>>
    /\ probes = <<>>
    /\ timerArmed = TRUE
    /\ delivered = [c \in Callers |-> Idle]

\* serveStatic; exists tells whether fs.stat finds a file to stream at the path
\* (or at its index.html)
serveStatic(exists) ==
    /\ static.status = 0
    /\ LET filePath == resolveFilePath(static.target)
       IN  static' = IF ~withinPublicDir(filePath)
                     THEN [static EXCEPT !.status = 403]
                     ELSE IF ~exists THEN [static EXCEPT !.status = 404]
                     ELSE [static EXCEPT !.status = 200, !.file = filePath]
    /\ UNCHANGED <<isOpen, modalOpen, offersCache, selected, view, lastErrorMessage,
                   lastOrder, health, screen, reads, purchases, probes, timerArmed,
                   delivered>>

NextStatic == \E exists \in BOOLEAN : serveStatic(exists)

SpecStatic == InitStatic /\ [][NextStatic]_vars

-----------------------------------------------------------------------------
(* Claims *)

\* C1 (single-flight catalog read): a call of fetchOffersOnce made while an
\* earlier call's remote read is outstanding issues no second remote read, so
\* that at no time more than one remote catalog read is outstanding.
\* Checked under SpecCatalogCache.
C1_SingleFlight == Len(reads) <= 1

\* C2 (health probe supersession): when a probe is started while an earlier one
\* is outstanding, the earlier probe is superseded: the step in which an
\* outstanding probe other than the most recently started one settles or
\* advances never writes HealthStatus.  (The earlier probe is taken at another
\* stage than every probe started after it, so that the step is its own.)
C2_SupersededProbeNeverWrites ==
    [][\A i \in DOMAIN probes :
          ( /\ i < Len(probes)
            /\ \A j \in (i + 1)..Len(probes) : probes[j].stage # probes[i].stage
            /\ \/ ProbeFetchFails(i)
               \/ ProbeDeadlineExpires(i)
               \/ \E ok \in BOOLEAN : ProbeResponds(i, ok)
               \/ \E body \in HealthBodies : ProbeBodyRead(i, body) )
          => health' = health]_vars

\* C3 (reopen after confirm): with the confirm view presented after a successful
\* purchase and the widget dismissed, opening it again shows the catalog view.
C3_ReopenReturnsToCatalog ==
    [][(view = "confirm" /\ screen.kind = "confirm" /\ ~modalOpen /\ modalOpen')
          => (view' = "catalog" /\ screen'.kind \in {"loading", "catalog"})]_vars

\* a response with a non-success status and a body that parses and carries an error code
IsCodedFailure(resp) == resp.transport /\ ~resp.ok /\ HasError(resp.body)

\* C4 (error code passed through): a catalog read or a purchase answered with a
\* non-success status and a parseable body carrying an error code fails with
\* exactly that code (the code is what the handler stores as the error message).
C4_CodePassedThroughVerbatim ==
    [][ /\ \A i \in DOMAIN reads, resp \in CatalogResponses :
              (IsCodedFailure(resp) /\ CatalogReadSettles(i, resp))
              => lastErrorMessage' = resp.body.error
        /\ \A i \in DOMAIN purchases, resp \in PurchaseResponses :
              (IsCodedFailure(resp) /\ PurchaseSettles(i, resp))
              => lastErrorMessage' = resp.body.error ]_vars

\* C5 (failed catalog read is the error view state): whenever the error
\* presentation is shown, the view variable is 'error' and the code shown is the
\* sanitized stored failure code.
C5_ErrorShownOnlyInErrorView ==
    screen.kind = "error"
    => (view = "error" /\ screen.code = sanitizeErrorCode(lastErrorMessage))

\* a success answer whose body parses, carries no error code and is no Order
IsMalformedSuccess(resp) ==
    /\ resp.transport /\ resp.ok /\ Parses(resp.body)
    /\ ~HasError(resp.body) /\ resp.body.orderId = ""

\* C6 (malformed purchase success is a failure): a purchase answered with success
\* status and a body lacking the Order's fields lands on the error view, stores
\* no Order and does not enter the confirm view.
C6_MalformedSuccessIsFailure ==
    [][\A i \in DOMAIN purchases, resp \in PurchaseResponses :
          (IsMalformedSuccess(resp) /\ PurchaseSettles(i, resp))
          => (view' = "error" /\ screen'.kind = "error" /\ lastOrder' = lastOrder)]_vars

\* a success answer whose body carries an error code
IsCodedSuccess(resp) == resp.transport /\ resp.ok /\ HasError(resp.body)

\* C7 (purchase success status with an error code): the purchase fails with that
\* code: the view becomes error showing the sanitized code and the stored Order
\* is unchanged.
C7_CodedSuccessIsFailure ==
    [][\A i \in DOMAIN purchases, resp \in PurchaseResponses :
          (IsCodedSuccess(resp) /\ PurchaseSettles(i, resp))
          => /\ view' = "error"
             /\ screen' = renderError(sanitizeErrorCode(resp.body.error))
             /\ lastErrorMessage' = resp.body.error
             /\ lastOrder' = lastOrder]_vars

\* a purchase answered 200 {error: "QTY_LIMIT"} has been handled (QTY_LIMIT is
\* sent with success status only, see PurchaseResponses)
C7_Witness ==
    /\ lastErrorMessage = QTY_LIMIT
    /\ view = "error"
    /\ screen.kind = "error"
    /\ screen.code = QTY_LIMIT
    /\ purchases = <<>>

\* C8 (selection bounds): every entry of the selection has a quantity q with
\* 0 < q, and q <= maxPerOrder when the offer defines it.
C8_SelectionBounds ==
    \A i \in DOMAIN selected :
        /\ selected[i].qty > 0
        /\ offersCache # <<>>
        /\ HasOffer(offersCache[1], selected[i].offerId)
        /\ LET offer == FindOffer(offersCache[1], selected[i].offerId)
           IN  HasMax(offer) => selected[i].qty <= MaxOf(offer)

\* the capped offer sits at its maximum and the + button is disabled
C8_Witness ==
    /\ offersCache = <<<<OfferA>>>>
    /\ MapGetOrZero(selected, OfferA.id) = MaxOf(OfferA)
    /\ screen.kind = "catalog"
    /\ OfferA.id \in screen.incDisabled

\* C9 (setQuantity stores integers): every quantity stored in the selection is
\* an integer, every input that is no non-negative integer being treated as 0.
C9_QuantitiesAreIntegers == \A i \in DOMAIN selected : selected[i].qty % Scale = 0

\* some check of the submit handler fails on the typed values
SomeCheckFails(rawName, rawBuyer, rawRecipient) ==
    \/ Trim(rawName) = EMPTY
    \/ ~isValidEmail(Trim(rawBuyer))
    \/ ~isValidEmail(Trim(rawRecipient))

\* C10 (validation gate): a submit click on which some check fails flags exactly
\* the failing fields, issues no purchase request, leaves the view checkout and
\* leaves lastOrder and the error code unchanged.
C10_ValidationGate ==
    [][\A n \in RawNames, b \in RawEmails, r \in RawEmails :
          (SubmitClick(n, b, r) /\ SomeCheckFails(n, b, r))
          => /\ purchases' = purchases
             /\ view = "checkout" /\ view' = "checkout"
             /\ screen'.kind = "checkout"
             /\ screen'.invalid = [name |-> Trim(n) = EMPTY,
                                   buyerEmail |-> ~isValidEmail(Trim(b)),
                                   recipientEmail |-> ~isValidEmail(Trim(r))]
             /\ lastOrder' = lastOrder
             /\ lastErrorMessage' = lastErrorMessage]_vars

\* a submit click has flagged the recipient email alone and nothing was sent
C10_Witness ==
    /\ screen.kind = "checkout"
    /\ screen.invalid = [name |-> FALSE, buyerEmail |-> FALSE, recipientEmail |-> TRUE]
    /\ view = "checkout"
    /\ purchases = <<>>

C12_CloseOnlyHides ==
    [][ /\ ENABLED closeModal
        /\ closeModal
           => /\ ~modalOpen'
              /\ UNCHANGED <<isOpen, offersCache, selected, view, lastErrorMessage,
                             lastOrder, health, screen, reads, purchases, probes>>
        /\ \A i \in DOMAIN purchases, resp \in PurchaseResponses :
              (~modalOpen /\ PurchaseSettles(i, resp))
              => LET outcome == submitPurchaseOutcome(resp)
                 IN  IF outcome.threw
                     THEN /\ lastErrorMessage' = ErrorMessage(outcome)
                          /\ view' = "error"
                          /\ screen' = renderError(sanitizeErrorCode(lastErrorMessage'))
                          /\ lastOrder' = lastOrder
                     ELSE /\ lastOrder' = outcome.value
                          /\ view' = "confirm"
        /\ (isOpen /\ ~modalOpen /\ modalOpen')
           => UNCHANGED <<view, screen, lastOrder, lastErrorMessage>> ]_vars

\* the dialog is hidden while a purchase submission is outstanding
C12_Witness ==
    /\ isOpen /\ ~modalOpen
    /\ purchases # <<>>
    /\ view = "loading"

\* C13 (catalog cache immutability): once offersCache is populated, no step
\* changes it and no step starts a remote catalog read.
C13_CacheImmutable ==
    [][offersCache # <<>>
          => (offersCache' = offersCache /\ Len(reads') <= Len(reads))]_vars

\* with the cache populated the view has gone to checkout and back to catalog
\* after a failed purchase, without any read outstanding
C13_Witness ==
    /\ offersCache = <<<<OfferB>>>>
    /\ lastErrorMessage = NETWORK
    /\ view = "checkout"
    /\ screen.kind = "checkout"
    /\ reads = <<>>

\* C14 (leaving the error view): while the error presentation is shown (or view
\* is 'error'), the only step that changes view or what is presented is Back;
\* it sets view to 'catalog', starts exactly one remote catalog read when
\* offersCache is empty and none when it is populated (the catalog is shown).
C14_BackIsSoleExitFromError ==
    [][((screen.kind = "error" \/ view = "error") /\ (view' # view \/ screen' # screen))
          => /\ BackClick
             /\ view' = "catalog"
             /\ IF offersCache = <<>>
                THEN /\ Len(reads') = Len(reads) + 1
                     /\ screen'.kind = "loading"
                ELSE /\ reads' = reads
                     /\ screen' = renderCatalog(offersCache[1], selected)]_vars

\* Back was pressed on the error shown for a failed catalog read: a fresh read
\* is outstanding
C14_Witness ==
    /\ offersCache = <<>>
    /\ lastErrorMessage = PARSE
    /\ reads # <<>>
    /\ view = "catalog"
    /\ screen.kind = "loading"

\* the character the claim prescribes for c: upper-case letters, digits and the
\* underscore stay, a lower-case letter becomes its upper-case letter, every
\* other character becomes the underscore
PrescribedChar(c) ==
    IF c \in Range(Upper) \cup Range(Digits) \cup {"_"} THEN c
    ELSE IF \E k \in DOMAIN Lower : Lower[k] = c
         THEN Upper[CHOOSE k \in DOMAIN Lower : Lower[k] = c]
         ELSE "_"

\* C15 (sanitizeErrorCode): the code shown for the stored error message is the
\* message itself when it is in the allow-list, UNKNOWN when it is empty, and
\* otherwise the message upper-cased with every character outside A-Z, 0-9 and
\* underscore replaced by underscore ('weird code!' gives 'WEIRD_CODE_'); it
\* is never empty and holds only characters A-Z, 0-9 and underscore.
\* Checked under SpecSanitize.
C15_SanitizeContract ==
    screen.kind = "error"
    => LET msg == lastErrorMessage
           out == screen.code
       IN  /\ msg \in known => out = msg
           /\ msg = EMPTY => out = UNKNOWN
           /\ (msg \notin known /\ msg # EMPTY)
              => /\ Len(out) = Len(msg)
                 /\ \A i \in DOMAIN msg : out[i] = PrescribedChar(msg[i])
           /\ msg = WEIRD_CODE
              => out = <<"W", "E", "I", "R", "D", "_", "C", "O", "D", "E", "_">>
           /\ out # <<>>
           /\ \A i \in DOMAIN out : out[i] \in Range(Upper) \cup Range(Digits) \cup {"_"}

\* 'weird code!' has been sanitized and is shown
C15_Witness ==
    /\ screen.kind = "error"
    /\ lastErrorMessage = WEIRD_CODE
    /\ screen.code = <<"W", "E", "I", "R", "D", "_", "C", "O", "D", "E", "_">>

\* C16 (sanitization before display): every error code presented, in the error
\* view and in the health status indicator, is an output of sanitizeErrorCode
\* (a string sanitizeErrorCode leaves as it is), never the raw remote string.
C16_DisplayedCodesAreSanitized ==
    /\ screen.kind = "error" => sanitizeErrorCode(screen.code) = screen.code
    /\ updateStatusUI(health).class = "err"
       => sanitizeErrorCode(updateStatusUI(health).code) = updateStatusUI(health).code

\* a step of runHealthCheck other than its start by the first openModal: the
\* passive timer, the recheck button, and every continuation of a probe
IsHealthStep ==
    \/ PassiveTimerFires
    \/ RetryClick
    \/ \E i \in DOMAIN probes :
          \/ ProbeFetchFails(i)
          \/ ProbeDeadlineExpires(i)
          \/ \E ok \in BOOLEAN : ProbeResponds(i, ok)
          \/ \E body \in HealthBodies : ProbeBodyRead(i, body)

\* C17 (HealthMonitor is isolated): HealthStatus is written only by
\* runHealthCheck (started by the timer, the recheck button or the first open,
\* or continuing a probe); no step of runHealthCheck changes view, the error
\* code, the stored Order, the selection, the catalog cache or what the main
\* view presents, and the first open, which also calls setView, writes of the
\* HealthStatus only what the start of a probe writes.
C17_HealthIsolated ==
    [][ /\ (health' # health \/ probes' # probes)
           => (IsHealthStep \/ (~isOpen /\ openModal))
        /\ IsHealthStep
           => UNCHANGED <<view, lastErrorMessage, lastOrder, selected, offersCache,
                          screen, reads, purchases>>
        /\ (~isOpen /\ openModal)
           => /\ health' = [status |-> "checking", code |-> EMPTY, last |-> DateNow]
              /\ UNCHANGED <<lastErrorMessage, lastOrder, selected, offersCache>> ]_vars

\* a probe has failed while the checkout view is presented
C17_Witness ==
    /\ health.status = "error"
    /\ health.code = NETWORK
    /\ view = "checkout"
    /\ screen.kind = "checkout"
    /\ lastErrorMessage = EMPTY

\* C18 (probe deadline): when a probe's deadline expires while its request is
\* outstanding, the request is cancelled (the probe is no longer outstanding)
\* and HealthStatus becomes status error with code NETWORK.
C18_DeadlineIsNetworkError ==
    [][\A i \in DOMAIN probes :
          ProbeDeadlineExpires(i)
          => /\ health'.status = "error"
             /\ health'.code = NETWORK
             /\ probes' = RemoveAt(probes, i)]_vars

\* the passive probe has run into its deadline before the widget was ever opened
C18_Witness ==
    /\ ~isOpen
    /\ ~timerArmed
    /\ probes = <<>>
    /\ health = [status |-> "error", code |-> NETWORK, last |-> DateNow]

\* C19 (one purchase request per valid submit): a submit click on which no check
\* fails adds exactly one purchase request, whose items are the entries of the
\* selection at the click, in order: one per selected offer, every quantity
\* positive, at least one item; requests are added by such clicks only, and a
\* request that settles, failed or not, is removed and not issued again.
C19_OneRequestPerValidSubmit ==
    [][ /\ \A n \in RawNames, b \in RawEmails, r \in RawEmails :
              (SubmitClick(n, b, r) /\ ~SomeCheckFails(n, b, r))
              => /\ Len(purchases') = Len(purchases) + 1
                 /\ SubSeq(purchases', 1, Len(purchases)) = purchases
                 /\ LET items == purchases'[Len(purchases')].items
                    IN  /\ items # <<>>
                        /\ Len(items) = Len(selected)
                        /\ \A k \in DOMAIN items :
                              /\ items[k] = [offerId |-> selected[k].offerId,
                                              qty |-> selected[k].qty]
                              /\ items[k].qty > 0
                              /\ \A l \in DOMAIN items :
                                    items[l].offerId = items[k].offerId => l = k
        /\ Len(purchases') > Len(purchases)
           => \E n \in RawNames, b \in RawEmails, r \in RawEmails :
                 SubmitClick(n, b, r) /\ ~SomeCheckFails(n, b, r)
        /\ \A i \in DOMAIN purchases, resp \in PurchaseResponses :
              PurchaseSettles(i, resp) => purchases' = RemoveAt(purchases, i) ]_vars

\* a cart holding one offer at quantity 2 was submitted: one request, one item
\* with quantity 2
C19_Witness ==
    /\ Len(purchases) = 1
    /\ purchases[1].items = <<[offerId |-> OfferA.id, qty |-> Whole(2)]>>
    /\ view = "loading"
    /\ screen.kind = "loading"

\* c holds exactly the offers of the sequence offers that are active, in the
\* order in which offers holds them
IsActiveSubsequence(c, offers) ==
    LET act == {j \in DOMAIN offers : offers[j].active}
    IN  /\ Len(c) = Cardinality(act)
        /\ \E f \in [DOMAIN c -> act] :
              /\ \A k \in DOMAIN c : c[k] = offers[f[k]]
              /\ \A k, l \in DOMAIN c : k < l => f[k] < f[l]

\* C20 (only active offers are cached): when a catalog read is answered with
\* success status and a body carrying an offer sequence, the cache becomes
\* exactly the active offers of that sequence in their original order, and
\* that is what the caller is given; no cached offer is ever inactive.
\* Checked under SpecCatalogCache.
C20_CacheHoldsActiveOffers ==
    [][ /\ \A i \in DOMAIN reads, resp \in CatalogResponses \cup WideCatalogResponses :
              ( /\ resp.transport /\ resp.ok /\ Parses(resp.body)
                /\ resp.body.offers # <<>>
                /\ CatalogReadSettles(i, resp) )
              => /\ offersCache' # <<>>
                 /\ IsActiveSubsequence(offersCache'[1], resp.body.offers[1])
                 /\ reads[i].then = "caller"
                    => delivered'[reads[i].caller] = Settled(Returned(offersCache'[1]))
        /\ offersCache' # <<>>
           => \A k \in DOMAIN offersCache'[1] : offersCache'[1][k].active ]_vars

\* the answer <<OfferC, OfferA, OfferB>> was cached without its inactive offer
C20_Witness ==
    /\ offersCache = <<<<OfferA, OfferB>>>>
    /\ \E c \in Callers : delivered[c] = Settled(Returned(<<OfferA, OfferB>>))

\* the sum of f over the finite set S of indices
RECURSIVE SumOver(_, _)
SumOver(S, f) ==
    IF S = {} THEN 0
    ELSE LET x == CHOOSE y \in S : TRUE IN f[x] + SumOver(S \ {x}, f)

\* C21 (subtotal): the subtotal renderCatalog computes is the sum, over the
\* entries of the selection, of quantity times the price of the offer with the
\* entry's id, an entry whose id no offer of the list has contributing 0.
\* Checked under SpecSubtotal.
C21_SubtotalIsSumOfMatched ==
    screen.kind = "catalog"
    => LET offers == offersCache[1]
           term == [i \in DOMAIN selected |->
                      LET match == {j \in DOMAIN offers : offers[j].id = selected[i].offerId}
                      IN  IF match = {} THEN 0
                          ELSE selected[i].qty * offers[CHOOSE j \in match : TRUE].amountMinor]
       IN  screen.subtotal = SumOver(DOMAIN selected, term)

\* two of the offer priced 500 and an entry no offer matches: subtotal 1000
C21_Witness ==
    /\ screen.kind = "catalog"
    /\ offersCache = <<<<OfferA>>>>
    /\ selected = <<[offerId |-> OfferB.id, qty |-> Whole(1)],
                    [offerId |-> OfferA.id, qty |-> Whole(2)]>>
    /\ screen.subtotal = 1000 * Scale

\* C22 (path-traversal protection): a file is streamed only if its resolved
\* path lies inside the public root, that is, is the root itself or continues
\* it with a '/'; a sibling whose name merely starts with the root's name is
\* not served.  Checked under SpecStatic.
C22_ServedFilesAreInsideRoot ==
    static.status = 200
    => \/ static.file = PUBLIC_DIR
       \/ StartsWith(static.file, PUBLIC_DIR \o <<"/">>)

\* C23 (BAD_RESPONSE and PARSE of a catalog read): a catalog read answered with
\* success status and a body that parses but carries no offer sequence fails
\* with BAD_RESPONSE, and a catalog read fails with PARSE only when its body
\* does not parse.
C23_MissingOffersIsBadResponse ==
    [][\A i \in DOMAIN reads, resp \in CatalogResponses :
          CatalogReadSettles(i, resp)
          => /\ (resp.transport /\ resp.ok /\ Parses(resp.body) /\ resp.body.offers = <<>>)
                => (lastErrorMessage' = BAD_RESPONSE /\ screen'.code = BAD_RESPONSE)
             /\ (fetchOffersOutcome(resp).threw /\ lastErrorMessage' = PARSE)
                => ~Parses(resp.body)]_vars

\* a non-success answer from which no error code can be parsed
IsUncodedFailure(resp) ==
    resp.transport /\ ~resp.ok /\ ~(Parses(resp.body) /\ HasError(resp.body))

\* C24 (REQUEST_FAILED): a catalog read or a purchase answered with a
\* non-success status and a body that does not parse, or parses without an
\* error code, fails with REQUEST_FAILED.
C24_UncodedFailureIsRequestFailed ==
    [][ /\ \A i \in DOMAIN reads, resp \in CatalogResponses :
              (IsUncodedFailure(resp) /\ CatalogReadSettles(i, resp))
              => lastErrorMessage' = REQUEST_FAILED
        /\ \A i \in DOMAIN purchases, resp \in PurchaseResponses :
              (IsUncodedFailure(resp) /\ PurchaseSettles(i, resp))
              => lastErrorMessage' = REQUEST_FAILED ]_vars

\* C25 (only the first open starts work): the first open sets view to catalog,
\* starts one remote catalog read and one health probe; every later open only
\* makes the dialog visible: view, what is presented, the outstanding reads and
\* probes and HealthStatus stay as they are.
C25_OnlyFirstOpenStartsWork ==
    [][openModal
          => /\ modalOpen'
             /\ IF ~isOpen
                THEN /\ view' = "catalog"
                     /\ Len(reads') = Len(reads) + 1
                     /\ Len(probes') = Len(probes) + 1
                     /\ health'.status = "checking"
                ELSE UNCHANGED <<view, screen, reads, probes, health, offersCache,
                                 selected, lastOrder, lastErrorMessage>>]_vars

\* the dialog is displayed again on the error view a failed purchase left, no
\* read and no probe outstanding
C25_Witness ==
    /\ isOpen /\ modalOpen
    /\ view = "error"
    /\ lastErrorMessage = REQUEST_FAILED
    /\ reads = <<>> /\ probes = <<>> /\ purchases = <<>>
    /\ health.status = "ok"

\* C26 (HealthStatus state machine): status becomes ok or error only from
\* checking, never changes directly between ok and error, and never returns
\* to idle.
C26_HealthStateMachine ==
    [][ /\ (health'.status \in {"ok", "error"} /\ health'.status # health.status)
           => health.status = "checking"
        /\ health.status # "idle" => health'.status # "idle" ]_vars

\* C27 (bounded response of the health probe): while status is checking, the
\* deadline of some outstanding probe is still pending, so that its expiry ends
\* the check, also when a non-success answer has arrived and its body is being
\* read.
C27_CheckingHasPendingDeadline ==
    health.status = "checking"
    => \E i \in DOMAIN probes : ENABLED ProbeDeadlineExpires(i)

\* C28 (checkout implies a non-empty selection): whenever view is 'checkout'
\* (or the checkout form is presented) the selection holds an item, and the
\* Checkout button is enabled only when it does.
C28_CheckoutHasItems ==
    /\ (view = "checkout" \/ screen.kind = "checkout")
       => (selected # <<>> /\ getSelectedItems(selected) # <<>> /\ screen.haveItems)
    /\ (screen.kind = "catalog" /\ screen.checkoutEnabled)
       => getSelectedItems(selected) # <<>>

\* the checkout form is presented for a cart of one offer
C28_Witness ==
    /\ view = "checkout"
    /\ screen.kind = "checkout"
    /\ screen.haveItems
    /\ selected = <<[offerId |-> OfferB.id, qty |-> Whole(1)]>>

\* C29 (HealthStatus is consistent): the code is non-empty exactly when status
\* is error, whatever the interleaving of overlapping probes.
C29_HealthCodeIffError ==
    (health.code # EMPTY) <=> (health.status = "error")

\* a probe ended with REQUEST_FAILED while another one is still outstanding
C29_Witness ==
    /\ health.status = "error"
    /\ health.code = REQUEST_FAILED
    /\ Len(probes) = 1

=============================================================================
